---- MODULE Spec2Model ----
(***************************************************************************)
(* LocalCacheManager (src/src/lib/local-cache.manager.ts): a per-key cache *)
(* of ReplaySubject(1) channels, refreshed from a producer and persisted   *)
(* in an external CacheDataStorage.  Every synchronous segment of the code *)
(* (from a call or a resumed await up to the next await) is one action.    *)
(* The store performs getAsync/storeAsync/removeAsync when it is called;   *)
(* the promise it returned settles at a later step, in any order.          *)
(***************************************************************************)
EXTENDS Integers, Sequences, FiniteSets, TLC

\* ------------------------------------------------------------------ bounds
MaxReads == 2        \* calls of getCache$ in a run
MaxInvalidates == 1  \* calls of invalidateAndUpdateAsync in a run
MaxSubs == 2         \* subscribe() calls in a run
MaxTime == 1         \* largest reading of the clock
MaxFailures == 1     \* rejections of the store and of the producer in a run
MaxLiveSubs == 1     \* subscribe() calls in a run checked for liveness

\* ------------------------------------------------------------ program data
MaxAgeInMS == 1      \* constructor argument _maxAgeInMS
BufferSize == 1      \* new ReplaySubject<T>(1)

Keys == {"", "k"}            \* cache keys; "" is the falsy one
Undefined == "undefined"     \* the absent key argument (void / undefined)
\* the arguments and the receiver of the t-th call: every call brings its own
CallOf(t) == [args |-> t, context |-> -t]
NoCall == [args |-> 0, context |-> 0]

\* the value the producer emits when task t invokes it for key k, and the
\* errors that invocation or the storeAsync after it can reject with
Produced(t, k) == 2 * t + (IF k = "" THEN 0 ELSE 1)
NoErr == [src |-> "none", of |-> 0]
ProducerError(t, k) == [src |-> "producer", of |-> Produced(t, k)]
StoreError(t, k) == [src |-> "store", of |-> Produced(t, k)]

NoRec == [data |-> -1, maxAgeMS |-> 0, createdAt |-> 0]

VARIABLES
  cacheStore,    \* _cacheStore: the Map, as its entries in insertion order
  caches,        \* every Cache object ever allocated (the heap), by identity
  storage,       \* the CacheDataStorage: key -> stored record or NoRec
  now,           \* the TimeStampProvider's clock
  tasks,         \* every call made so far, with the position of its async body
  subscribers,   \* every subscriber that has called subscribe() on a handle
  failures       \* rejections of the store and of the producer so far

vars == <<cacheStore, caches, storage, now, tasks, subscribers, failures>>

\* --------------------------------------------------------------- the Map
MapHas(store, key) == \E i \in DOMAIN store : store[i].key = key

MapGet(store, key) ==
  IF MapHas(store, key)
  THEN store[CHOOSE i \in DOMAIN store : store[i].key = key].cache
  ELSE 0

MapSet(store, key, c) ==
  IF MapHas(store, key)
  THEN [i \in DOMAIN store |->
          IF store[i].key = key THEN [key |-> key, cache |-> c] ELSE store[i]]
  ELSE Append(store, [key |-> key, cache |-> c])

MapDelete(store, key) == SelectSeq(store, LAMBDA p : p.key /= key)

MapKeys(store) == [i \in DOMAIN store |-> store[i].key]

\* --------------------------------------------------- external collaborators
\* isCacheOutdated(record, now)
isCacheOutdated(rec, t) == t >= rec.createdAt + rec.maxAgeMS

\* CacheDataStorage.getAsync(key)
StorageGet(st, key) == st[key]

\* CacheDataStorage.storeAsync(key, record)
StorageStore(st, key, rec) == [st EXCEPT ![key] = rec]

\* CacheDataStorage.removeAsync(keys)
StorageRemove(st, keys) ==
  [k \in Keys |-> IF \E i \in DOMAIN keys : keys[i] = k THEN NoRec ELSE st[k]]

\* --------------------------------------------------------- ReplaySubject(1)
NewSubject ==
  [buffer |-> <<>>, isStopped |-> FALSE, hasError |-> FALSE,
   thrownError |-> NoErr, observers |-> {}]

\* a ReplaySubject built without a buffer size keeps every value
KeepWholeBuffer(b) == b

\* ReplaySubject._trimBuffer with bufferSize 1
TrimBuffer(b) ==
  IF Len(b) > BufferSize THEN SubSeq(b, Len(b) - BufferSize + 1, Len(b)) ELSE b

\* subject.observed
Observed(subject) == subject.observers /= {}

\* ReplaySubject.next(value): buffered and delivered unless stopped
SubjectNext(subject, value) ==
  IF subject.isStopped THEN subject
  ELSE [subject EXCEPT !.buffer = TrimBuffer(Append(@, value))]

\* what next(value) on the subject of cache c does to the subscribers
DeliverNext(subs, subject, value) ==
  [s \in DOMAIN subs |->
     IF ~subject.isStopped /\ s \in subject.observers
     THEN [subs[s] EXCEPT !.received = Append(@, value)]
     ELSE subs[s]]

\* Subject.error(err): stops the subject and drops every observer
SubjectError(subject, err) ==
  IF subject.isStopped THEN subject
  ELSE [subject EXCEPT !.isStopped = TRUE, !.hasError = TRUE,
                       !.thrownError = err, !.observers = {}]

DeliverError(subs, subject, err) ==
  [s \in DOMAIN subs |->
     IF ~subject.isStopped /\ s \in subject.observers
     THEN [subs[s] EXCEPT !.error = err, !.closed = TRUE]
     ELSE subs[s]]

\* --------------------------------------------------------------- the tasks
NoJob ==
  [pc |-> "none", cache |-> 0, usedArgs |-> 0, usedContext |-> 0,
   record |-> NoRec, setCalled |-> FALSE, error |-> NoErr, errorLanded |-> FALSE]

\* _refreshCacheData(cache) up to its first await: the producer is invoked
StartRefresh(c) ==
  [NoJob EXCEPT !.pc = "producing", !.cache = c,
                !.usedArgs = caches[c].lastArgs,
                !.usedContext = caches[c].context]

NoJobs == [k \in Keys |-> NoJob]


NewTask(kind, key, call, c, rec) ==
  [kind |-> kind, key |-> key, args |-> call.args, context |-> call.context,
   cache |-> c, pc |-> IF kind = "read" THEN "get_called" ELSE "swept",
   rec |-> rec, sawOutdated |-> FALSE, branch |-> "none",
   observedAtCall |-> 0, sweptAtCall |-> 0, targets |-> <<>>, removed |-> FALSE,
   jobs |-> NoJobs]

Count(kind) == Cardinality({t \in DOMAIN tasks : tasks[t].kind = kind})

\* ------------------------------------------------------------------- Init
Init ==
  /\ cacheStore = <<>>
  /\ caches = <<>>
  /\ storage = [k \in Keys |-> NoRec]
  /\ now = 0
  /\ tasks = <<>>
  /\ subscribers = <<>>
  /\ failures = 0

\* ------------------------------------------------- _getAndEnsureCache (57-73)
NewCache(key, args, context, creator) ==
  [key |-> key, lastArgs |-> args, context |-> context,
   subject |-> NewSubject, initialized |-> FALSE,
   creator |-> creator, published |-> <<>>]

\* an _getAndEnsureCache that overwrites the arguments of an existing Cache
EnsureHeapLastArgs(heap, store, key, args, context, creator) ==
  IF MapHas(store, key)
  THEN [heap EXCEPT ![MapGet(store, key)].lastArgs = args,
                    ![MapGet(store, key)].context = context]
  ELSE Append(heap, NewCache(key, args, context, creator))

\* the heap after _getAndEnsureCache: a Cache is allocated only when absent
EnsureHeap(heap, store, key, args, context, creator) ==
  IF MapHas(store, key) THEN heap
  ELSE Append(heap, NewCache(key, args, context, creator))

\* the Map after _getAndEnsureCache
EnsureStore(heap, store, key) ==
  IF MapHas(store, key) THEN store ELSE MapSet(store, key, Len(heap) + 1)

\* ------------------------------------ _removeUnobservedCachesAsync (102-110)
\* a filter that forgets the excepted key
UnusedWithoutExcept(store, heap, except) ==
  {store[i].key : i \in {j \in DOMAIN store :
       ~Observed(heap[store[j].cache].subject)}}

UnusedCaches(store, heap, except) ==
  {store[i].key : i \in {j \in DOMAIN store :
       store[j].key /= except /\ ~Observed(heap[store[j].cache].subject)}}

\* a sweep that deletes nothing
RemoveNoCaches(store, heap, except) == store

RemoveUnobservedCaches(store, heap, except) ==
  LET unused == UnusedCaches(store, heap, except)
  IN  SelectSeq(store, LAMBDA p : p.key \notin unused)

\* ------------------------------------------------------ _setCacheData (112-116)
\* a _setCacheData that publishes and leaves initialized as it was
SetCacheDataNoFlag(c, data) ==
  /\ caches' = [caches EXCEPT
        ![c].subject = SubjectNext(@, data),
        ![c].published = IF caches[c].subject.isStopped THEN @ ELSE Append(@, data)]
  /\ subscribers' = DeliverNext(subscribers, caches[c].subject, data)

SetCacheData(c, data) ==
  /\ caches' = [caches EXCEPT
        ![c].subject = SubjectNext(@, data),
        ![c].initialized = TRUE,
        ![c].published = IF caches[c].subject.isStopped THEN @ ELSE Append(@, data)]
  /\ subscribers' = DeliverNext(subscribers, caches[c].subject, data)

\* cache.subject.error(e) (98)
FailCache(c, err) ==
  /\ caches' = [caches EXCEPT ![c].subject = SubjectError(@, err)]
  /\ subscribers' = DeliverError(subscribers, caches[c].subject, err)

\* ---------------------------------------------------------- getCache$ (30-39)
\* the synchronous body: ensure the entry, sweep the others, issue getAsync
Read(key) ==
  /\ Count("read") < MaxReads
  /\ LET t == Len(tasks) + 1
         call == CallOf(t)
         heap1 == EnsureHeap(caches, cacheStore, key, call.args, call.context, t)
         store1 == EnsureStore(caches, cacheStore, key)
     IN  /\ caches' = heap1
         /\ cacheStore' = RemoveUnobservedCaches(store1, heap1, key)
         /\ tasks' = Append(tasks, NewTask("read", key, call, MapGet(store1, key),
                                           StorageGet(storage, key)))
  /\ UNCHANGED <<storage, now, subscribers, failures>>

\* a caller subscribes to the Observable a getCache$ call returned for cache c
SubscribeReplay(subject) == subject.buffer

Subscribe(c) ==
  /\ Len(subscribers) < MaxSubs
  /\ c \in DOMAIN caches
  /\ LET s == Len(subscribers) + 1
         subject == caches[c].subject
     IN  /\ caches' = [caches EXCEPT ![c].subject.observers =
                         IF subject.hasError \/ subject.isStopped THEN @ ELSE @ \cup {s}]
         /\ subscribers' = Append(subscribers,
              [cache |-> c, received |-> SubscribeReplay(subject),
               error |-> IF subject.hasError THEN subject.thrownError ELSE NoErr,
               closed |-> subject.hasError])
  /\ UNCHANGED <<cacheStore, storage, now, tasks, failures>>

\* a subscriber that has unsubscribed: it is no observer any more and what it
\* had received is no longer followed
Unsubscribed == [cache |-> 0, received |-> <<>>, error |-> NoErr, closed |-> TRUE]

Unsubscribe(s) ==
  /\ s \in DOMAIN subscribers
  /\ ~subscribers[s].closed
  /\ s \in caches[subscribers[s].cache].subject.observers
  /\ caches' = [caches EXCEPT ![subscribers[s].cache].subject.observers = @ \ {s}]
  /\ subscribers' = [subscribers EXCEPT ![s] = Unsubscribed]
  /\ UNCHANGED <<cacheStore, storage, now, tasks, failures>>

\* _timeStampProvider.now(): the clock never runs backwards; a reading is the
\* last one or a later one
Readings == now..MaxTime

\* -------------------------------- _refreshCacheIfOutOfDataAsync (75-84)
\* a staleness path that takes a rejected getAsync as "needs refresh"
GetFailRefreshes(t) ==
  /\ tasks[t].kind = "read" /\ tasks[t].pc = "get_called"
  /\ failures < MaxFailures
  /\ failures' = failures + 1
  /\ tasks' = [tasks EXCEPT ![t].pc = "refreshing", ![t].rec = NoRec,
        ![t].branch = "refresh",
        ![t].jobs[caches[tasks[t].cache].key] = StartRefresh(tasks[t].cache)]
  /\ UNCHANGED <<cacheStore, caches, storage, now, subscribers>>

\* getAsync(key) rejects: nothing in the staleness path catches it
GetFail(t) ==
  /\ tasks[t].kind = "read" /\ tasks[t].pc = "get_called"
  /\ failures < MaxFailures
  /\ failures' = failures + 1
  /\ tasks' = [tasks EXCEPT ![t].pc = "rejected", ![t].rec = NoRec]
  /\ UNCHANGED <<cacheStore, caches, storage, now, subscribers>>

\* a check that forgets the age of the record
RefreshOnlyWhenAbsent(rec, t) == rec = NoRec

\* a check that never trusts the stored record
RefreshAlways(rec, t) == TRUE

\* a check that never asks for a refresh
RefreshNever(rec, t) == FALSE

NeedsRefresh(rec, t) == rec = NoRec \/ isCacheOutdated(rec, t)

\* getAsync resolved; the body after the await: refresh, publish the stored data, or nothing
ReadResume(t) ==
  /\ tasks[t].kind = "read" /\ tasks[t].pc = "get_called"
  /\ \E reading \in Readings :
       LET rec == tasks[t].rec
           c == tasks[t].cache
           outdated == rec /= NoRec /\ isCacheOutdated(rec, reading)
       IN  /\ now' = reading
           /\ IF NeedsRefresh(rec, reading)
              THEN /\ tasks' = [tasks EXCEPT
                         ![t].pc = "refreshing", ![t].sawOutdated = outdated,
                         ![t].branch = "refresh",
                         ![t].jobs[caches[c].key] = StartRefresh(c)]
                   /\ UNCHANGED <<caches, subscribers>>
              ELSE IF ~caches[c].initialized /\ rec /= NoRec
              THEN /\ SetCacheData(c, rec.data)
                   /\ tasks' = [tasks EXCEPT
                         ![t].pc = "done", ![t].sawOutdated = outdated,
                         ![t].branch = "stored"]
              ELSE /\ tasks' = [tasks EXCEPT
                         ![t].pc = "done", ![t].sawOutdated = outdated,
                         ![t].branch = "nothing"]
                   /\ UNCHANGED <<caches, subscribers>>
  /\ UNCHANGED <<cacheStore, storage, failures>>

\* ------------------------------------------------ _refreshCacheData (86-100)
\* the task once job k of it has ended: a read's body ends with its refresh,
\* an invalidate returns when Promise.all has settled, i.e. with its last job
JobEnded(t, k, job) ==
  [tasks EXCEPT ![t].jobs[k] = [job EXCEPT !.pc = "done"],
                ![t].pc = IF tasks[t].kind = "read" THEN "done"
                          ELSE IF \A j \in Keys \ {k} : tasks[t].jobs[j].pc \in {"none", "done"}
                               THEN "returned" ELSE @]

\* a refresh without the try/catch: the error rejects the caller's promise
RethrowRefreshError(t, k, err) ==
  /\ tasks' = [tasks EXCEPT ![t].pc = "rejected",
                            ![t].jobs[k] = [@ EXCEPT !.pc = "done", !.error = err]]
  /\ UNCHANGED <<caches, subscribers>>

\* the catch block: the error goes to the subject and does not leave the refresh
CatchRefreshError(t, k, err) ==
  LET job == tasks[t].jobs[k]
  IN  /\ FailCache(job.cache, err)
      /\ tasks' = JobEnded(t, k, [job EXCEPT !.error = err,
                     !.errorLanded = ~caches[job.cache].subject.isStopped])

\* firstValueFrom(producer) resolves; storeAsync(cache.key, record) is called
\* with createdAt = now() and the store performs it
ProducerReturn(t, k) ==
  /\ tasks[t].jobs[k].pc = "producing"
  /\ \E reading \in Readings :
       LET job == tasks[t].jobs[k]
           record == [data |-> Produced(t, k), maxAgeMS |-> MaxAgeInMS,
                      createdAt |-> reading]
       IN  /\ now' = reading
           /\ storage' = StorageStore(storage, caches[job.cache].key, record)
           /\ tasks' = [tasks EXCEPT ![t].jobs[k] = [job EXCEPT
                 !.pc = "store_done", !.record = record]]
  /\ UNCHANGED <<cacheStore, caches, subscribers, failures>>

\* firstValueFrom(producer) rejects
ProducerFail(t, k) ==
  /\ tasks[t].jobs[k].pc = "producing"
  /\ failures < MaxFailures
  /\ failures' = failures + 1
  /\ CatchRefreshError(t, k, ProducerError(t, k))
  /\ UNCHANGED <<cacheStore, storage, now>>

\* firstValueFrom(producer) resolves but storeAsync rejects, storing nothing
StoreFail(t, k) ==
  /\ tasks[t].jobs[k].pc = "producing"
  /\ failures < MaxFailures
  /\ failures' = failures + 1
  /\ CatchRefreshError(t, k, StoreError(t, k))
  /\ UNCHANGED <<cacheStore, storage, now>>

\* a refresh that publishes what the producer returned without storing it
PublishUnstored(t, k) ==
  /\ tasks[t].jobs[k].pc = "producing"
  /\ SetCacheData(tasks[t].jobs[k].cache, Produced(t, k))
  /\ tasks' = JobEnded(t, k, [tasks[t].jobs[k] EXCEPT !.setCalled = TRUE])
  /\ UNCHANGED <<cacheStore, storage, now, failures>>

\* storeAsync resolved; the body after the await: publish
StoreResume(t, k) ==
  /\ tasks[t].jobs[k].pc = "store_done"
  /\ SetCacheData(tasks[t].jobs[k].cache, tasks[t].jobs[k].record.data)
  /\ tasks' = JobEnded(t, k, [tasks[t].jobs[k] EXCEPT !.setCalled = TRUE])
  /\ UNCHANGED <<cacheStore, storage, now, failures>>

\* ------------------------------------------ invalidateAndUpdateAsync (41-55)
Truthy(key) == key /= Undefined /\ key /= ""

\* the call: the sweep with no exception runs synchronously, then the await
Invalidate(key) ==
  /\ Count("invalidate") < MaxInvalidates
  /\ cacheStore' = RemoveUnobservedCaches(cacheStore, caches, Undefined)
  /\ tasks' = Append(tasks, [NewTask("invalidate", key, NoCall, 0,
                                     IF key \in Keys THEN storage[key] ELSE NoRec) EXCEPT
        !.observedAtCall = IF MapHas(cacheStore, key)
                                /\ Observed(caches[MapGet(cacheStore, key)].subject)
                             THEN MapGet(cacheStore, key) ELSE 0,
        !.sweptAtCall = IF MapHas(cacheStore, key)
                             /\ ~Observed(caches[MapGet(cacheStore, key)].subject)
                          THEN MapGet(cacheStore, key) ELSE 0])
  /\ UNCHANGED <<caches, storage, now, subscribers, failures>>

AllToInvalidateAndUpdate(key, store) ==
  IF Truthy(key) THEN <<key>> ELSE MapKeys(store)

\* after the sweep: the targets are computed, removeAsync(targets) is called
\* and the store performs it
InvalidateAfterSweep(t) ==
  /\ tasks[t].kind = "invalidate" /\ tasks[t].pc = "swept"
  /\ LET targets == AllToInvalidateAndUpdate(tasks[t].key, cacheStore)
     IN  /\ storage' = StorageRemove(storage, targets)
         /\ tasks' = [tasks EXCEPT ![t].pc = "rm_done", ![t].targets = targets,
                                   ![t].removed = TRUE]
  /\ UNCHANGED <<cacheStore, caches, now, subscribers, failures>>

\* removeAsync(targets) rejects, removing nothing, and so does the invalidate
RemoveFail(t) ==
  /\ tasks[t].kind = "invalidate" /\ tasks[t].pc = "swept"
  /\ failures < MaxFailures
  /\ failures' = failures + 1
  /\ tasks' = [tasks EXCEPT ![t].pc = "rejected",
        ![t].targets = AllToInvalidateAndUpdate(tasks[t].key, cacheStore)]
  /\ UNCHANGED <<cacheStore, caches, storage, now, subscribers>>

\* an invalidate that removes the records and refreshes nothing
RefreshedNone(targets, store) == {}

\* the targets whose entry is in the Map
Refreshed(targets, store) ==
  {targets[i] : i \in {j \in DOMAIN targets : MapHas(store, targets[j])}}

\* an invalidate that starts the refreshes and does not await them
ReturnAtOnce(started) == "returned"

\* await Promise.all(...): with nothing to await the invalidate returns
AfterStart(started) == IF started = {} THEN "returned" ELSE "awaiting"

\* removeAsync resolved; after the await every target still in the Map starts
\* a refresh (the producer is invoked for each)
InvalidateAfterRemove(t) ==
  /\ tasks[t].kind = "invalidate" /\ tasks[t].pc = "rm_done"
  /\ LET started == Refreshed(tasks[t].targets, cacheStore)
     IN  tasks' = [tasks EXCEPT ![t].pc = AfterStart(started),
              ![t].jobs = [k \in Keys |->
                 IF k \in started THEN StartRefresh(MapGet(cacheStore, k))
                 ELSE NoJob]]
  /\ UNCHANGED <<cacheStore, caches, storage, now, subscribers, failures>>

\* ------------------------------------------------------------------- Next
Next ==
  \/ \E key \in Keys : Read(key)
  \/ \E c \in DOMAIN caches : Subscribe(c)
  \/ \E s \in DOMAIN subscribers : Unsubscribe(s)
  \/ \E t \in DOMAIN tasks : GetFail(t)
  \/ \E t \in DOMAIN tasks : ReadResume(t)
  \/ \E t \in DOMAIN tasks, k \in Keys : ProducerReturn(t, k)
  \/ \E t \in DOMAIN tasks, k \in Keys : ProducerFail(t, k)
  \/ \E t \in DOMAIN tasks, k \in Keys : StoreFail(t, k)
  \/ \E t \in DOMAIN tasks, k \in Keys : StoreResume(t, k)
  \/ \E key \in Keys \cup {Undefined} : Invalidate(key)
  \/ \E t \in DOMAIN tasks : InvalidateAfterSweep(t)
  \/ \E t \in DOMAIN tasks : RemoveFail(t)
  \/ \E t \in DOMAIN tasks : InvalidateAfterRemove(t)

Spec == Init /\ [][Next]_vars

\* --------------------------------------------------------------- liveness
\* the steps the event loop runs by itself: the continuation of every await
\* whose promise settles (getAsync resolving, the producer and storeAsync
\* resolving or rejecting, removeAsync resolving or rejecting)
Continue ==
  \/ \E t \in DOMAIN tasks : ReadResume(t)
  \/ \E t \in DOMAIN tasks, k \in Keys : ProducerReturn(t, k)
  \/ \E t \in DOMAIN tasks, k \in Keys : ProducerFail(t, k)
  \/ \E t \in DOMAIN tasks, k \in Keys : StoreFail(t, k)
  \/ \E t \in DOMAIN tasks, k \in Keys : StoreResume(t, k)
  \/ \E t \in DOMAIN tasks : InvalidateAfterSweep(t)
  \/ \E t \in DOMAIN tasks : RemoveFail(t)
  \/ \E t \in DOMAIN tasks : InvalidateAfterRemove(t)

\* the program with a store whose getAsync never rejects
NextReadsSucceed ==
  \/ \E key \in Keys : Read(key)
  \/ \E c \in DOMAIN caches : Len(subscribers) < MaxLiveSubs /\ Subscribe(c)
  \/ \E s \in DOMAIN subscribers : Unsubscribe(s)
  \/ \E key \in Keys \cup {Undefined} : Invalidate(key)
  \/ \E t \in DOMAIN tasks : ReadResume(t)
  \/ \E t \in DOMAIN tasks, k \in Keys : ProducerReturn(t, k)
  \/ \E t \in DOMAIN tasks, k \in Keys : ProducerFail(t, k)
  \/ \E t \in DOMAIN tasks, k \in Keys : StoreFail(t, k)
  \/ \E t \in DOMAIN tasks, k \in Keys : StoreResume(t, k)
  \/ \E t \in DOMAIN tasks : InvalidateAfterSweep(t)
  \/ \E t \in DOMAIN tasks : RemoveFail(t)
  \/ \E t \in DOMAIN tasks : InvalidateAfterRemove(t)

\* every promise settles and its continuation is run: the calls are finitely
\* many, so weak fairness of the continuations as a whole runs each of them
LiveSpec == Init /\ [][NextReadsSucceed]_vars /\ WF_vars(Continue)

\* ====================================================================
\* Properties
\* ====================================================================
Last(seq) == seq[Len(seq)]

IsRead(t) == tasks[t].kind = "read"
IsInvalidate(t) == tasks[t].kind = "invalidate"

\* a call was made in this step; it is the last task of the next state
CallMade == Len(tasks') = Len(tasks) + 1

\* a subscribe() was made in this step; its subscriber is the last one
SubscribeMade == Len(subscribers') = Len(subscribers) + 1

\* the caches of a key that have an active subscriber
ObservedCachesOf(key) ==
  {c \in DOMAIN caches : caches[c].key = key /\ Observed(caches[c].subject)}

\* C1: the Map holds at most one entry per key, and the subscriptions active
\* at one instant for one key are all on the subject of one Cache object.
\* The first half holds; the second fails when a handle is subscribed to after
\* a sweep has removed its unobserved entry and a later read has made another.
SingleEntryPerKey ==
  /\ \A i, j \in DOMAIN cacheStore :
        cacheStore[i].key = cacheStore[j].key => i = j
  /\ \A key \in Keys : Cardinality(ObservedCachesOf(key)) <= 1

\* C2: a subscription made on a subject that has published gets the most
\* recent published value at subscribe time, with no call, producer invocation
\* or store access in that step; a subscriber of a subject that has published
\* nothing has received nothing.
ReplayToLateSubscriber ==
  [][ /\ SubscribeMade =>
           LET s == Len(subscribers')
               c == subscribers'[s].cache
           IN  /\ subscribers'[s].received =
                    IF caches[c].published = <<>> THEN <<>>
                    ELSE <<Last(caches[c].published)>>
               /\ tasks' = tasks /\ storage' = storage /\ cacheStore' = cacheStore
      /\ \A s \in DOMAIN subscribers' :
           (subscribers'[s].cache /= 0
              /\ caches'[subscribers'[s].cache].published = <<>>)
           => subscribers'[s].received = <<>>
    ]_vars

\* C2 witness: a subscriber that came after the second publication of its
\* cache and was replayed that value alone
ReplayedLatest ==
  \E s \in DOMAIN subscribers :
    /\ subscribers[s].cache /= 0
    /\ Len(caches[subscribers[s].cache].published) = 2
    /\ subscribers[s].received = <<Last(caches[subscribers[s].cache].published)>>

Range(seq) == {seq[i] : i \in DOMAIN seq}

\* the staleness check of read t runs in this step
CheckRuns(t) ==
  /\ IsRead(t) /\ tasks[t].pc = "get_called"
  /\ tasks'[t].pc \notin {"get_called", "rejected"}

\* C3: a read whose staleness check finds the stored record of K outdated
\* (createdAt + maxAge <= now) invokes the producer once, for K's entry, and
\* the value it produced is on the subject only after its one storeAsync.
StalenessTriggersRefresh ==
  \A t \in DOMAIN tasks :
    (IsRead(t) /\ tasks[t].sawOutdated) =>
      LET K == tasks[t].key
          job == tasks[t].jobs[K]
      IN  /\ tasks[t].branch = "refresh"
          /\ job.pc /= "none" /\ job.cache = tasks[t].cache
          /\ caches[job.cache].key = K
          /\ \A k \in Keys \ {K} : tasks[t].jobs[k] = NoJob
          /\ Produced(t, K) \in Range(caches[job.cache].published)
               => job.record.data = Produced(t, K)
          /\ job.setCalled => job.record.data = Produced(t, K)

\* C3 witness: a read found an outdated record, refreshed, stored and published
StaleReadRefreshed ==
  \E t \in DOMAIN tasks :
    /\ IsRead(t) /\ tasks[t].sawOutdated /\ tasks[t].pc = "done"
    /\ tasks[t].rec /= NoRec
    /\ tasks[t].jobs[tasks[t].key].record /= NoRec
    /\ Last(caches[tasks[t].cache].published) = Produced(t, tasks[t].key)

\* C4: when the staleness check of a read finds a record that is not outdated
\* and the entry is not initialized, that step calls next(stored data) on the
\* entry's subject (delivered to every observer and kept for replay, unless
\* the subject has been failed) and sets initialized; no producer is invoked
\* and the store is not written.
FreshnessSkipsProducer ==
  [][ \A t \in DOMAIN tasks :
        (/\ CheckRuns(t)
         /\ tasks[t].rec /= NoRec
         /\ ~isCacheOutdated(tasks[t].rec, now')
         /\ ~caches[tasks[t].cache].initialized)
        => LET c == tasks[t].cache
               data == tasks[t].rec.data
           IN  /\ tasks'[t].pc = "done"
               /\ tasks'[t].jobs = NoJobs
               /\ storage' = storage
               /\ caches'[c].initialized
               /\ ~caches[c].subject.isStopped =>
                    /\ caches'[c].subject.buffer = <<data>>
                    /\ caches'[c].published = Append(caches[c].published, data)
                    /\ \A s \in caches[c].subject.observers :
                         subscribers'[s].received =
                           Append(subscribers[s].received, data)
               /\ caches[c].subject.isStopped =>
                    /\ caches'[c].subject = caches[c].subject
                    /\ subscribers' = subscribers
    ]_vars

\* C4 witness: a read served the stored record to a subscriber of its entry
\* (the first value of that entry) without a refresh
StoredDataServed ==
  \E t \in DOMAIN tasks, s \in DOMAIN subscribers :
    /\ IsRead(t) /\ tasks[t].branch = "stored" /\ tasks[t].jobs = NoJobs
    /\ subscribers[s].cache = tasks[t].cache
    /\ subscribers[s].received = <<tasks[t].rec.data>>
    /\ caches[tasks[t].cache].published = <<tasks[t].rec.data>>
    /\ caches[tasks[t].cache].initialized

\* C5: a call (read or invalidate) for another key removes from the Map every
\* entry without an active subscriber; a read of a key that is not in the Map
\* allocates a Cache object that never existed before, uninitialized, with an
\* empty subject that replays nothing.
GCReclaimsUnobserved ==
  [][ CallMade =>
        LET t == Len(tasks')
            key == tasks'[t].key
        IN  /\ \A i \in DOMAIN cacheStore :
                 (/\ cacheStore[i].key /= key
                  /\ ~Observed(caches[cacheStore[i].cache].subject))
                 => ~MapHas(cacheStore', cacheStore[i].key)
            /\ (tasks'[t].kind = "read" /\ ~MapHas(cacheStore, key)) =>
                 LET c == tasks'[t].cache
                 IN  /\ c \notin DOMAIN caches
                     /\ c \in DOMAIN caches'
                     /\ MapGet(cacheStore', key) = c
                     /\ caches'[c].key = key
                     /\ ~caches'[c].initialized
                     /\ caches'[c].subject = NewSubject
                     /\ caches'[c].published = <<>>
                     /\ SubscribeReplay(caches'[c].subject) = <<>>
    ]_vars

\* C5 witness: an entry that had published was reclaimed, its key was read
\* again, and the subscriber of the new entry was replayed nothing
ReclaimedAndRecreated ==
  \E c1, c2 \in DOMAIN caches, s \in DOMAIN subscribers :
    /\ c1 < c2 /\ caches[c1].key = caches[c2].key
    /\ caches[c1].published /= <<>>
    /\ MapGet(cacheStore, caches[c2].key) = c2
    /\ subscribers[s].cache = c2 /\ ~subscribers[s].closed
    /\ subscribers[s].received = <<>>

\* C6: for an invalidate of key K called while K's entry has an active
\* subscriber, and as long as that entry is the one in the Map: the step that
\* issues removeAsync leaves no record of K in the store; the producer is not
\* invoked before that; the step after the removal invokes the producer once,
\* for K's entry, whatever the age of the record was; and the step that ends
\* that refresh with success publishes the produced value on that entry.
InvalidationForcesRefresh ==
  [][ \A t \in DOMAIN tasks :
        (IsInvalidate(t) /\ tasks[t].observedAtCall /= 0) =>
          LET K == tasks[t].key
              job == tasks[t].jobs[K]
              c == tasks[t].observedAtCall
              present == MapGet(cacheStore, K) = c
          IN  /\ (tasks[t].pc = "swept" /\ tasks'[t].pc = "rm_done" /\ present)
                   => (storage'[K] = NoRec /\ K \in Range(tasks'[t].targets))
              /\ ~tasks[t].removed => tasks[t].jobs = NoJobs
              /\ (tasks[t].pc = "rm_done" /\ tasks'[t].pc /= "rm_done" /\ present)
                   => /\ tasks'[t].jobs[K].pc = "producing"
                      /\ tasks'[t].jobs[K].cache = c
                      /\ tasks'[t].pc = "awaiting"
              /\ (job.pc = "store_done" /\ tasks'[t].jobs[K].pc = "done"
                    /\ ~caches[job.cache].subject.isStopped)
                   => /\ caches'[job.cache].subject.buffer = <<Produced(t, K)>>
                      /\ \A s \in caches[job.cache].subject.observers :
                           subscribers'[s].received =
                             Append(subscribers[s].received, Produced(t, K))
    ]_vars

\* C6 witness: an invalidate of an observed key whose record was not outdated
\* has removed it, refreshed and republished to the subscriber
FreshRecordInvalidated ==
  \E t \in DOMAIN tasks, s \in DOMAIN subscribers :
    /\ IsInvalidate(t) /\ tasks[t].observedAtCall /= 0 /\ tasks[t].pc = "returned"
    /\ tasks[t].rec /= NoRec /\ ~isCacheOutdated(tasks[t].rec, now)
    /\ tasks[t].jobs[tasks[t].key].setCalled
    /\ tasks[t].jobs[tasks[t].key].cache = tasks[t].observedAtCall
    /\ subscribers[s].cache = tasks[t].observedAtCall
    /\ ~subscribers[s].closed
    /\ Len(subscribers[s].received) = 2
    /\ Last(subscribers[s].received) = Produced(t, tasks[t].key)

\* C7: a subscription made on a subject that has been failed with error e
\* observes e and no value.  It fails: ReplaySubject replays its buffer to
\* the new subscriber before it delivers the error.
ErrorTerminality ==
  [][ SubscribeMade =>
        LET s == Len(subscribers')
            subject == caches[subscribers'[s].cache].subject
        IN  subject.hasError =>
              /\ subscribers'[s].error = subject.thrownError
              /\ subscribers'[s].received = <<>>
    ]_vars

\* C8: a refresh whose producer or storeAsync rejected has ended, has stored
\* nothing and has published nothing; its subject is failed, with that error
\* unless it had been failed before; and the task that ran it is not rejected
\* (an invalidate is rejected by its removeAsync alone).
RefreshFailureHandling ==
  \A t \in DOMAIN tasks :
    /\ \A k \in Keys :
         LET job == tasks[t].jobs[k]
         IN  job.error /= NoErr =>
               /\ job.pc = "done"
               /\ job.error \in {ProducerError(t, k), StoreError(t, k)}
               /\ job.record = NoRec
               /\ ~job.setCalled
               /\ Produced(t, k) \notin Range(caches[job.cache].published)
               /\ caches[job.cache].subject.hasError
               /\ caches[job.cache].subject.isStopped
               /\ job.errorLanded =>
                    caches[job.cache].subject.thrownError = job.error
               /\ tasks[t].pc /= "rejected"
               /\ IsRead(t) => tasks[t].pc = "done"
    /\ (IsInvalidate(t) /\ tasks[t].pc = "rejected") => tasks[t].jobs = NoJobs

\* C8 witness: an invalidate has returned although its refresh failed, and the
\* subscriber of the entry got the error
InvalidateReturnedAfterFailure ==
  \E t \in DOMAIN tasks, k \in Keys, s \in DOMAIN subscribers :
    /\ IsInvalidate(t) /\ tasks[t].pc = "returned"
    /\ tasks[t].jobs[k].error /= NoErr
    /\ subscribers[s].cache = tasks[t].jobs[k].cache
    /\ subscribers[s].error = tasks[t].jobs[k].error

\* C9: an invalidate that has returned has had its removeAsync performed, and
\* none of its refreshes is in flight: each has published or failed its subject.
InvalidateAwaitsCompletion ==
  \A t \in DOMAIN tasks :
    (IsInvalidate(t) /\ tasks[t].pc = "returned") =>
      /\ tasks[t].removed
      /\ \A k \in Keys :
           LET job == tasks[t].jobs[k]
           IN  /\ job.pc \in {"none", "done"}
               /\ job.pc = "done" => (job.setCalled \/ job.error /= NoErr)

\* C9 witness: an invalidate of every key has returned after two refreshes, one
\* that published and one that failed
InvalidateReturnedAfterTwo ==
  \E t \in DOMAIN tasks, k1, k2 \in Keys :
    /\ IsInvalidate(t) /\ tasks[t].pc = "returned"
    /\ tasks[t].jobs[k1].setCalled
    /\ tasks[t].jobs[k2].error /= NoErr

\* C10: the lastArgs and context of a Cache are those of the read that created
\* it, whatever later reads of its key bring, and every producer invocation
\* for it (by a read or by an invalidate) uses them.
ArgumentsCapturedOnce ==
  /\ \A c \in DOMAIN caches :
       LET r == caches[c].creator
       IN  /\ r \in DOMAIN tasks /\ IsRead(r) /\ tasks[r].cache = c
           /\ caches[c].lastArgs = tasks[r].args
           /\ caches[c].context = tasks[r].context
  /\ \A t \in DOMAIN tasks, k \in Keys :
       LET job == tasks[t].jobs[k]
       IN  job.pc /= "none" =>
             /\ job.usedArgs = tasks[caches[job.cache].creator].args
             /\ job.usedContext = tasks[caches[job.cache].creator].context

\* C10 witness: a later read of the key, with other arguments, refreshed the
\* entry with the arguments of the read that created it
LaterReadUsedFirstArgs ==
  \E t \in DOMAIN tasks :
    /\ IsRead(t) /\ caches[tasks[t].cache].creator /= t
    /\ tasks[t].jobs[tasks[t].key].pc /= "none"
    /\ tasks[t].jobs[tasks[t].key].usedArgs /= tasks[t].args
    /\ tasks[t].jobs[tasks[t].key].usedArgs = caches[tasks[t].cache].lastArgs

\* the Cache objects the Map holds
MapCaches(store) == {store[i].cache : i \in DOMAIN store}

\* C11: a Cache object that left the Map is never put back (an entry that
\* enters the Map is a newly allocated Cache with a new subject), and a
\* subscriber on the subject of a Cache that is out of the Map receives no
\* value.  The first half holds; the second fails: a refresh that was in
\* flight when the entry was swept still publishes on the old subject.
RemovalIsFinal ==
  [][ /\ \A c \in MapCaches(cacheStore') \ MapCaches(cacheStore) :
           c \notin DOMAIN caches /\ caches'[c].subject = NewSubject
      /\ \A s \in DOMAIN subscribers' :
           LET c == subscribers'[s].cache
           IN  (c \in DOMAIN caches /\ c \notin MapCaches(cacheStore)) =>
                 subscribers'[s].received =
                   IF s \in DOMAIN subscribers THEN subscribers[s].received
                   ELSE <<>>
    ]_vars

\* the reads of the entry c that found no stored record and ran a refresh
FirstRefreshesOf(c) ==
  {t \in DOMAIN tasks : /\ IsRead(t) /\ tasks[t].cache = c
                        /\ tasks[t].branch = "refresh" /\ tasks[t].rec = NoRec}

\* C12: when the only calls were reads of one never-initialized key that each
\* refreshed its entry, and every one of these refreshes has stored and
\* published, the last value published on the subject is the data of the
\* record in the store.  It fails: the continuations after storeAsync may run
\* in another order than the writes were made.
ConcurrentRefreshesConsistent ==
  \A c \in DOMAIN caches :
    (/\ Cardinality(FirstRefreshesOf(c)) >= 2
     /\ FirstRefreshesOf(c) = DOMAIN tasks
     /\ \A t \in FirstRefreshesOf(c) : tasks[t].jobs[caches[c].key].setCalled
     /\ failures = 0)
    => /\ caches[c].published /= <<>>
       /\ Last(caches[c].published) = storage[caches[c].key].data

\* C13: after every step, initialized is true exactly for the Cache objects
\* whose subject has published a value, and it is never set back to false.
\* It fails: _setCacheData sets initialized after a next() that a failed
\* subject dropped.
InitializedIffPublished ==
  [][ \A c \in DOMAIN caches' :
        /\ caches'[c].initialized <=> caches'[c].published /= <<>>
        /\ (c \in DOMAIN caches /\ caches[c].initialized)
             => caches'[c].initialized
    ]_vars

\* C14: the step in which a refresh's producer returns writes to the store,
\* under the entry's key, the record {produced value, _maxAgeInMS, createdAt =
\* the clock reading of that step} and publishes nothing; the step in which a
\* refresh calls _setCacheData comes after that write, has met no error, and
\* publishes the data of the record it wrote.
PersistBeforePublish ==
  [][ \A t \in DOMAIN tasks, k \in Keys :
        LET job == tasks[t].jobs[k]
            after == tasks'[t].jobs[k]
            c == job.cache
        IN  /\ (job.pc = "producing" /\ after.pc = "store_done") =>
                 /\ after.record = [data |-> Produced(t, k),
                                    maxAgeMS |-> MaxAgeInMS, createdAt |-> now']
                 /\ storage'[caches[c].key] = after.record
                 /\ k = caches[c].key
                 /\ caches' = caches /\ subscribers' = subscribers
            /\ (~job.setCalled /\ after.setCalled) =>
                 /\ job.pc = "store_done" /\ job.error = NoErr
                 /\ job.record.data = Produced(t, k)
                 /\ job.record.maxAgeMS = MaxAgeInMS
                 /\ job.record.createdAt <= now
                 /\ caches'[c].published =
                      IF caches[c].subject.isStopped THEN caches[c].published
                      ELSE Append(caches[c].published, job.record.data)
    ]_vars

\* C14 witness: a refresh has published to a subscriber the value it had
\* stored with a createdAt read after the clock had advanced
PersistedThenPublished ==
  \E t \in DOMAIN tasks, k \in Keys, s \in DOMAIN subscribers :
    /\ tasks[t].jobs[k].setCalled
    /\ tasks[t].jobs[k].record.createdAt > 0
    /\ subscribers[s].cache = tasks[t].jobs[k].cache
    /\ subscribers[s].received /= <<>>
    /\ Last(subscribers[s].received) = tasks[t].jobs[k].record.data
    /\ storage[k] = tasks[t].jobs[k].record

\* the key a call passes to its sweep: a read its own key, an invalidate none
ExceptOf(task) == IF task.kind = "read" THEN task.key ELSE Undefined

\* C15: the Map changes only in the step of a call; the sweep of that call
\* removes exactly the entries whose key is not the excepted key and whose
\* subject has no observer; an observed entry is removed by no step; and the
\* entry of the key a read was called with is in the Map after the read.
SweepSafety ==
  [][ /\ ~CallMade => cacheStore' = cacheStore
      /\ \A i \in DOMAIN cacheStore :
           Observed(caches[cacheStore[i].cache].subject)
             => cacheStore[i] \in Range(cacheStore')
      /\ CallMade =>
           LET task == Last(tasks')
           IN  /\ \A i \in DOMAIN cacheStore :
                    cacheStore[i] \in Range(cacheStore')
                      <=> \/ cacheStore[i].key = ExceptOf(task)
                          \/ Observed(caches[cacheStore[i].cache].subject)
               /\ \A e \in Range(cacheStore') \ Range(cacheStore) :
                    task.kind = "read" /\ e.key = task.key
               /\ task.kind = "read" =>
                    /\ MapGet(cacheStore', task.key) = task.cache
                    /\ MapHas(cacheStore, task.key)
                         => MapGet(cacheStore, task.key) = task.cache
    ]_vars

\* C15 witness: the last call was a read of a key whose entry existed before
\* and has had no observer; the entry is still the one in the Map
KeptOwnUnobserved ==
  \E c \in DOMAIN caches :
    /\ tasks /= <<>> /\ IsRead(Len(tasks))
    /\ Last(tasks).cache = c /\ caches[c].creator < Len(tasks)
    /\ ~Observed(caches[c].subject)
    /\ \A s \in DOMAIN subscribers : subscribers[s].cache /= c
    /\ MapGet(cacheStore, caches[c].key) = c

\* C16: for an invalidate of key K called while K's entry has no observer:
\* the call's sweep removes the entry; the step that issues removeAsync leaves
\* no record of K in the store; if no read has put a new entry of K in the Map
\* meanwhile, the invalidate starts no refresh for K (no producer invocation,
\* no publication); and when it returns the store holds no record of K unless
\* a refresh (of another call, or of a new entry of K) has written one.  It
\* fails for the falsy key: its record is not among the targets once its
\* entry is swept.
InvalidateUnobservedKey ==
  [][ \A t \in DOMAIN tasks' :
        LET task == tasks'[t]
            K == task.key
        IN  (task.kind = "invalidate" /\ task.sweptAtCall /= 0) =>
              /\ t \notin DOMAIN tasks =>
                   /\ task.sweptAtCall \notin MapCaches(cacheStore')
                   /\ ~MapHas(cacheStore', K)
                   /\ task.jobs = NoJobs
              /\ (t \in DOMAIN tasks /\ tasks[t].pc = "swept" /\ task.pc = "rm_done")
                   => storage'[K] = NoRec
              /\ (t \in DOMAIN tasks /\ tasks[t].pc = "rm_done"
                    /\ ~MapHas(cacheStore, K))
                   => task.jobs[K] = NoJob
              /\ task.jobs[K] = NoJob => task.jobs[K].record = NoRec
              /\ (t \in DOMAIN tasks /\ tasks[t].pc /= "returned"
                    /\ task.pc = "returned")
                   => \/ storage'[K] = NoRec
                      \/ \E u \in DOMAIN tasks' :
                           tasks'[u].jobs[K].record = storage'[K]
    ]_vars

\* the target set of an invalidate: the key when one is given, else the keys
\* in the Map after the sweep
TargetSet(key, store) ==
  IF key /= Undefined THEN {key} ELSE Range(MapKeys(store))

\* C17: the step of an invalidate that issues removeAsync has as targets
\* exactly {key} when a key was given, and the keys of the Map after the sweep
\* when none was; it removes the records of the targets and leaves the other
\* records unchanged; the refreshes started later are of targets only.  It
\* fails for the falsy key, which is handled as if no key was given.
InvalidateTargetSet ==
  [][ \A t \in DOMAIN tasks :
        IsInvalidate(t) =>
          /\ (tasks[t].pc = "swept" /\ tasks'[t].pc = "rm_done") =>
               /\ Range(tasks'[t].targets) = TargetSet(tasks[t].key, cacheStore)
               /\ \A k \in Keys :
                    storage'[k] = IF k \in TargetSet(tasks[t].key, cacheStore)
                                  THEN NoRec ELSE storage[k]
          /\ \A k \in Keys :
               tasks'[t].jobs[k] /= NoJob => k \in Range(tasks'[t].targets)
    ]_vars

\* C18: the step in which the getAsync of a read's staleness check rejects
\* rejects the promise of _refreshCacheIfOutOfDataAsync and does nothing else:
\* no producer is invoked, the store, the Map, every subject and every
\* initialized flag are unchanged; and a read rejected so never runs a refresh.
GetFailureNotCaught ==
  [][ \A t \in DOMAIN tasks :
        IsRead(t) =>
          /\ (tasks[t].pc = "get_called" /\ tasks'[t].pc /= "get_called"
                /\ failures' /= failures) =>
               /\ tasks'[t].pc = "rejected"
               /\ tasks'[t].jobs = NoJobs /\ tasks'[t].branch = "none"
               /\ storage' = storage /\ cacheStore' = cacheStore
               /\ caches' = caches /\ subscribers' = subscribers
          /\ tasks[t].pc = "rejected" =>
               (tasks'[t].pc = "rejected" /\ tasks'[t].jobs = NoJobs)
    ]_vars

\* C18 witness: a read was rejected by its getAsync while a subscriber waits
\* on its entry: the subscriber has got neither a value nor an error and the
\* entry is not initialized
ReadRejectedSubscriberWaits ==
  \E t \in DOMAIN tasks, s \in DOMAIN subscribers :
    /\ IsRead(t) /\ tasks[t].pc = "rejected"
    /\ subscribers[s].cache = tasks[t].cache /\ ~subscribers[s].closed
    /\ subscribers[s].received = <<>> /\ subscribers[s].error = NoErr
    /\ ~caches[tasks[t].cache].initialized
    /\ ~caches[tasks[t].cache].subject.isStopped
    /\ caches[tasks[t].cache].published = <<>>

\* subscriber s has received a value or an error, or has unsubscribed
Served(s) ==
  /\ s \in DOMAIN subscribers
  /\ \/ subscribers[s].received /= <<>>
     \/ subscribers[s].error /= NoErr
     \/ subscribers[s] = Unsubscribed

\* C19: with a getAsync that never rejects and every continuation run, each
\* subscriber of a handle returned by a read eventually receives a value or an
\* error (unless it unsubscribes first).
EverySubscriberServed ==
  \A s \in 1..MaxLiveSubs : (s \in DOMAIN subscribers) ~> Served(s)

\* C19 witness: a subscriber of an entry that is out of the Map, whose subject
\* had published nothing before it attached, has been served a value
SweptEntrySubscriberServed ==
  \E s \in DOMAIN subscribers :
    /\ subscribers[s].cache /= 0
    /\ subscribers[s].cache \notin MapCaches(cacheStore)
    /\ Len(caches[subscribers[s].cache].published) = 1
    /\ subscribers[s].received = caches[subscribers[s].cache].published
    /\ ~subscribers[s].closed
    /\ \E t \in DOMAIN tasks : IsInvalidate(t)

\* C20: the step in which a read publishes the stored payload without a
\* refresh finds an entry that is not initialized and whose subject has
\* published nothing, and no other read has done so on that entry; after it
\* the subject has published at most that payload.
StoredPayloadOnlyFirst ==
  [][ \A t \in DOMAIN tasks :
        (IsRead(t) /\ tasks[t].branch /= "stored" /\ tasks'[t].branch = "stored") =>
          LET c == tasks[t].cache
          IN  /\ ~caches[c].initialized
              /\ caches[c].published = <<>>
              /\ \A u \in DOMAIN tasks :
                   tasks[u].cache = c => tasks[u].branch /= "stored"
              /\ \A u \in DOMAIN tasks, k \in Keys :
                   tasks[u].jobs[k].cache = c => ~tasks[u].jobs[k].setCalled
              /\ caches'[c].published =
                   IF caches[c].subject.isStopped THEN <<>>
                   ELSE <<tasks[t].rec.data>>
    ]_vars

\* C20 witness: the stored payload was the first value of an entry and a
\* value published by a refresh followed it; a later subscriber got the latter
StoredThenRefreshed ==
  \E t, u \in DOMAIN tasks, s \in DOMAIN subscribers :
    /\ IsRead(t) /\ tasks[t].branch = "stored" /\ u /= t
    /\ tasks[u].jobs[tasks[t].key].cache = tasks[t].cache
    /\ tasks[u].jobs[tasks[t].key].setCalled
    /\ Len(caches[tasks[t].cache].published) = 2
    /\ caches[tasks[t].cache].published[1] = tasks[t].rec.data
    /\ subscribers[s].cache = tasks[t].cache
    /\ subscribers[s].received = <<Last(caches[tasks[t].cache].published)>>

====
